---- MODULE Spec2Model ----
(***************************************************************************)
(* Planfix MCP server: the transport layer (PlanfixAPI._request), the      *)
(* request validation models, the tool and resource handlers and the       *)
(* server lifespan, as a state machine.                                    *)
(*                                                                         *)
(* Texts are sequences of tokens.  The Russian literals of the source are  *)
(* written in Latin transliteration, one token per literal; numbers are    *)
(* rendered by ToString, as the f-strings of the source render them.       *)
(***************************************************************************)
EXTENDS Integers, Sequences, FiniteSets, TLC

\* ------------------------------------------------------------------ bounds

\* Longest array the upstream API returns in a list response.
MaxUpstream == 3
\* Largest in-bounds `limit` a caller passes (besides the default and 101).
MaxLimitIn == 2
\* Largest `offset` a caller passes.
MaxOffsetIn == 2
\* Largest `page` a caller passes.
MaxPageIn == 2
\* Largest id a caller passes.
MaxIdIn == 1

\* ------------------------------------------------------ program constants

\* Field(ge=1, le=100) of PaginationMixin.limit
LimitMin == 1
LimitMax == 100
\* Field(default=20) of PaginationMixin.limit
LimitDefault == 20
\* Field(ge=0) of PaginationMixin.offset
OffsetMin == 0
\* Field(ge=1) of PaginationMixin.page
PageMin == 1
\* Field(ge=1) of every id and id filter
IdMin == 1
\* limit=10 of get_recent_contacts
RecentLimit == 10
\* first status code treated as an error by _request
ErrorStatusMin == 400

\* Optional[int]: None is the empty tuple, a value v is <<v>>.
None == << >>
Some(v) == <<v>>
IsNone(o) == o = << >>
Val(o) == o[1]

\* ------------------------------------------------------------- exceptions

\* The exception classes that occur, and Python's isinstance on them.
\* PlanfixValidationError is imported by planfix_server from planfix_api.
Superclasses(cls) ==
    CASE cls = "PlanfixAuthError"       -> {"PlanfixAuthError", "PlanfixError", "Exception"}
      [] cls = "PlanfixNotFoundError"   -> {"PlanfixNotFoundError", "PlanfixError", "Exception"}
      [] cls = "PlanfixValidationError" -> {"PlanfixValidationError", "PlanfixError", "Exception"}
      [] cls = "PlanfixError"           -> {"PlanfixError", "Exception"}
      [] cls = "TimeoutException"       -> {"TimeoutException", "Exception"}
      [] cls = "ConnectError"           -> {"ConnectError", "Exception"}
      [] OTHER                          -> {cls, "Exception"}

IsInstance(cls, base) == base \in Superclasses(cls)

\* The result of evaluating a block: a value, or a raised exception with its
\* str().  Every result has the same fields.
NoBody ==
    [json |-> FALSE, text |-> "", message |-> None, error |-> None, payload |-> "none",
     items |-> << >>]
Return(body) == [raised |-> FALSE, cls |-> "", msg |-> << >>, value |-> body]
Raise(cls, msg) == [raised |-> TRUE, cls |-> cls, msg |-> msg, value |-> NoBody]

\* ----------------------------------------------------- transport outcomes

\* What httpx does with one request: a response (status, body), a timeout,
\* a connection failure, or another exception.
TextBody(t) == [NoBody EXCEPT !.text = t]
ErrorObject(m) == [NoBody EXCEPT !.json = TRUE, !.text = "{..}", !.message = m]
\* A failure envelope {"result": "fail", "code": c, "error": e} and the raw
\* text of the body that carries it.
Envelope(e, raw) == [NoBody EXCEPT !.json = TRUE, !.text = raw, !.error = Some(e)]
ListBody(xs) ==
    [NoBody EXCEPT !.json = TRUE, !.text = "{..}", !.payload = "list", !.items = xs]
ShapeBody(p) == [NoBody EXCEPT !.json = TRUE, !.text = "{..}", !.payload = p]

Ascending(n) == [i \in 1..n |-> i]
Descending(n) == [i \in 1..n |-> n + 1 - i]
\* An element without an id is written 0.
LastMalformed(n) == [i \in 1..n |-> IF i = n THEN 0 ELSE i]

UpstreamLists ==
    {Ascending(n) : n \in 0..MaxUpstream}
    \cup {Descending(n) : n \in 2..MaxUpstream}
    \cup {LastMalformed(n) : n \in 1..2}

\* The texts a raw body spells out literally: a JSON encoder writes a text
\* outside ASCII as \\uXXXX escapes, which spell nothing of the text.
Spells(raw) ==
    IF raw = "{result: fail, code: 1, error: Bad thing}" THEN {"Bad thing"} ELSE {}

ErrorBodies ==
    {TextBody("oops"), ErrorObject(Some("denied")), ErrorObject(None),
     Envelope("Bad thing", "{result: fail, code: 1, error: Bad thing}"),
     Envelope("Oshibka", "{result: fail, code: 1, error: \\u041e\\u0448}")}
SuccessBodies ==
    {TextBody("<html>")}
    \cup {ListBody(xs) : xs \in UpstreamLists}
    \cup {ShapeBody(p) : p \in {"missing", "scalar", "entity", "badentity"}}

Response(s, b) == [type |-> "response", status |-> s, body |-> b, err |-> ""]
NoOutcome == [type |-> "none", status |-> 0, body |-> NoBody, err |-> ""]

Outcomes ==
    {[type |-> "timeout", status |-> 0, body |-> NoBody, err |-> "Timeout"],
     [type |-> "connect", status |-> 0, body |-> NoBody, err |-> "Connection failed"],
     [type |-> "error", status |-> 0, body |-> NoBody, err |-> "boom"]}
    \cup {Response(s, b) : s \in {401, 403, 404, 500}, b \in ErrorBodies}
    \cup {Response(200, b) : b \in SuccessBodies}

\* -------------------------------------------------- PlanfixAPI._request

\* Lines 57-84: the body of the try block.
RequestTry(out) ==
    CASE out.type = "timeout" -> Raise("TimeoutException", <<out.err>>)
      [] out.type = "connect" -> Raise("ConnectError", <<out.err>>)
      [] out.type = "error"   -> Raise("RuntimeError", <<out.err>>)
      [] OTHER ->
            IF out.status = 401 THEN Raise("PlanfixAuthError", <<"Nevernye uchyotnye dannye API">>)
            ELSE IF out.status = 403 THEN Raise("PlanfixAuthError", <<"Nedostatochno prav dostupa">>)
            ELSE IF out.status = 404 THEN Raise("PlanfixNotFoundError", <<"Resurs ne naiden">>)
            ELSE IF out.status >= ErrorStatusMin THEN
                LET error_data == IF out.body.json /\ ~IsNone(out.body.message)
                                  THEN Val(out.body.message)
                                  ELSE out.body.text
                IN  Raise("PlanfixError", <<"HTTP ", ToString(out.status), ": ", error_data>>)
            ELSE IF out.body.json THEN Return(out.body)
            ELSE Raise("JSONDecodeError", <<"Expecting value">>)

\* Mutant: the catch-all clause is tried before the two httpx clauses.
RequestExcept_CatchAllFirst(r) ==
    IF ~r.raised THEN r
    ELSE IF IsInstance(r.cls, "Exception")
         THEN Raise("PlanfixError", <<"Oshibka API zaprosa: ">> \o r.msg)
    ELSE r

\* Mutant: the catch-all clause is missing.
RequestExcept_NoCatchAll(r) ==
    IF ~r.raised THEN r
    ELSE IF IsInstance(r.cls, "TimeoutException")
         THEN Raise("PlanfixError", <<"Prevysheno vremya ozhidaniya zaprosa">>)
    ELSE IF IsInstance(r.cls, "ConnectError")
         THEN Raise("PlanfixError", <<"Ne udalos podklyuchitsya k Planfix API">>)
    ELSE r

\* Lines 86-92: the except clauses, tried in order on what the try block raised.
RequestExcept(r) ==
    IF ~r.raised THEN r
    ELSE IF IsInstance(r.cls, "TimeoutException")
         THEN Raise("PlanfixError", <<"Prevysheno vremya ozhidaniya zaprosa">>)
    ELSE IF IsInstance(r.cls, "ConnectError")
         THEN Raise("PlanfixError", <<"Ne udalos podklyuchitsya k Planfix API">>)
    ELSE IF IsInstance(r.cls, "Exception")
         THEN Raise("PlanfixError", <<"Oshibka API zaprosa: ">> \o r.msg)
    ELSE r

Request(out) == RequestExcept(RequestTry(out))

\* ------------------------------------------------------ utils.format_error

\* The lower-cased patterns of format_error that occur in a token.  The
\* literals of the source (Cyrillic) contain none of them.
Mentions(tok) ==
    CASE tok = "401" -> {"401"}
      [] tok = "403" -> {"403"}
      [] tok = "404" -> {"404"}
      [] tok \in {"Timeout", "Request timeout occurred", "TIMEOUT"} -> {"timeout"}
      [] tok \in {"Connection failed", "CONNECTION reset"} -> {"connection"}
      [] tok = "Connection timeout" -> {"timeout", "connection"}
      [] tok \in {"Unauthorized", "UNAUTHORIZED"} -> {"unauthorized"}
      [] tok \in {"Forbidden access", "FORBIDDEN"} -> {"forbidden"}
      [] tok \in {"Not found", "NOT FOUND"} -> {"not found"}
      [] OTHER -> {}

StrContains(msg, pat) == \E i \in 1..Len(msg) : pat \in Mentions(msg[i])

\* Mutant: the connection rule is tried before the timeout rule.
format_error_ConnectionFirst(error_msg, context) ==
    IF StrContains(error_msg, "401") \/ StrContains(error_msg, "unauthorized")
    THEN <<"X Oshibka avtorizatsii. Proverte API klyuchi Planfix.">>
    ELSE IF StrContains(error_msg, "403") \/ StrContains(error_msg, "forbidden")
    THEN <<"X Dostup zapreshchyon. Nedostatochno prav dlya vypolneniya operatsii.">>
    ELSE IF StrContains(error_msg, "404") \/ StrContains(error_msg, "not found")
    THEN <<"X Obekt ne naiden. Proverte ID i poprobuite snova.">>
    ELSE IF StrContains(error_msg, "connection")
    THEN <<"X Oshibka soedineniya s Planfix. Proverte internet-podklyuchenie.">>
    ELSE IF StrContains(error_msg, "timeout")
    THEN <<"X Prevysheno vremya ozhidaniya. Poprobuite pozzhe.">>
    ELSE IF context # ""
    THEN <<"X Oshibka pri ", context, ": ">> \o error_msg
    ELSE <<"X Proizoshla oshibka: ">> \o error_msg

format_error(error_msg, context) ==
    IF StrContains(error_msg, "401") \/ StrContains(error_msg, "unauthorized")
    THEN <<"X Oshibka avtorizatsii. Proverte API klyuchi Planfix.">>
    ELSE IF StrContains(error_msg, "403") \/ StrContains(error_msg, "forbidden")
    THEN <<"X Dostup zapreshchyon. Nedostatochno prav dlya vypolneniya operatsii.">>
    ELSE IF StrContains(error_msg, "404") \/ StrContains(error_msg, "not found")
    THEN <<"X Obekt ne naiden. Proverte ID i poprobuite snova.">>
    ELSE IF StrContains(error_msg, "timeout")
    THEN <<"X Prevysheno vremya ozhidaniya. Poprobuite pozzhe.">>
    ELSE IF StrContains(error_msg, "connection")
    THEN <<"X Oshibka soedineniya s Planfix. Proverte internet-podklyuchenie.">>
    ELSE IF context # ""
    THEN <<"X Oshibka pri ", context, ": ">> \o error_msg
    ELSE <<"X Proizoshla oshibka: ">> \o error_msg

\* ------------------------------------------------- input validation models

\* The arguments of an invocation; a handler reads the fields it declares.
DefaultArgs ==
    [offset |-> OffsetMin, limit |-> LimitDefault, page |-> None,
     project_id |-> None, assignee_id |-> None, task_id |-> None,
     status |-> "active", is_company |-> FALSE, id |-> IdMin, sid |-> "1",
     query |-> "", deadline |-> None]

\* One pydantic error: the field and the message.
GeError(field, bound) ==
    <<"\nPole '", field, "': ", "Input should be greater than or equal to ", ToString(bound)>>
LeError(field, bound) ==
    <<"\nPole '", field, "': ", "Input should be less than or equal to ", ToString(bound)>>

CheckGe(field, v, bound) == IF v < bound THEN GeError(field, bound) ELSE << >>
CheckOptGe(field, o, bound) ==
    IF ~IsNone(o) /\ Val(o) < bound THEN GeError(field, bound) ELSE << >>

\* Mutant: page is checked against 0 instead of 1.
PaginationErrors_PageFromZero(a) ==
    CheckGe("offset", a.offset, OffsetMin)
    \o (IF a.limit < LimitMin THEN GeError("limit", LimitMin)
        ELSE IF a.limit > LimitMax THEN LeError("limit", LimitMax)
        ELSE << >>)
    \o CheckOptGe("page", a.page, PageMin - 1)

\* PaginationMixin: offset >= 0, 1 <= limit <= 100, page None or >= 1.
PaginationErrors(a) ==
    CheckGe("offset", a.offset, OffsetMin)
    \o (IF a.limit < LimitMin THEN GeError("limit", LimitMin)
        ELSE IF a.limit > LimitMax THEN LeError("limit", LimitMax)
        ELSE << >>)
    \o CheckOptGe("page", a.page, PageMin)

\* TaskListRequest.validate_status
StatusErrors(a) ==
    IF a.status \notin {"active", "completed", "all"}
    THEN <<"\nPole '", "status", "': ",
           "Value error, Status must be one of: active, completed, all">>
    ELSE << >>

TaskListRequestErrors(a) ==
    PaginationErrors(a)
    \o CheckOptGe("project_id", a.project_id, IdMin)
    \o CheckOptGe("assignee_id", a.assignee_id, IdMin)
    \o StatusErrors(a)

FileListRequestErrors(a) ==
    PaginationErrors(a)
    \o CheckOptGe("task_id", a.task_id, IdMin)
    \o CheckOptGe("project_id", a.project_id, IdMin)

ContactDetailsRequestErrors(a) == CheckGe("contact_id", a.id, IdMin)
EntityByIdRequestErrors(a) == CheckGe("id", a.id, IdMin)

\* Mutant: the page number is taken as 0-based.
get_offset_ZeroBasedPage(a) ==
    IF ~IsNone(a.page) THEN Val(a.page) * a.limit ELSE a.offset

\* PaginationMixin.get_offset
get_offset(a) ==
    IF ~IsNone(a.page) THEN (Val(a.page) - 1) * a.limit ELSE a.offset

ListTools ==
    {"list_tasks", "list_contacts", "list_employees", "list_files",
     "list_comments", "list_reports", "list_processes"}
GetTools == {"get_contact_details", "get_comment", "get_file", "get_project", "get_user"}
Resources == {"dashboard", "projects", "task", "contacts"}
\* Mutant: the comment-writing tool is still registered.
Tools_WithWriteTool == ListTools \cup GetTools \cup {"add_task_comment"}

Tools == ListTools \cup GetTools

\* The request model each tool validates against.
ModelErrors(tool, a) ==
    CASE tool = "list_tasks" -> TaskListRequestErrors(a)
      [] tool \in {"list_files", "list_comments"} -> FileListRequestErrors(a)
      [] tool \in ListTools -> PaginationErrors(a)
      [] tool = "get_contact_details" -> ContactDetailsRequestErrors(a)
      [] OTHER -> EntityByIdRequestErrors(a)

\* validate_input: the validated request, or PlanfixValidationError naming
\* every field that failed.
validate_input(tool, a) ==
    IF ModelErrors(tool, a) = << >> THEN Return(NoBody)
    ELSE Raise("PlanfixValidationError",
               <<"Oshibka validatsii vkhodnykh dannykh:">> \o ModelErrors(tool, a))

\* --------------------------------------------------------- operation layer

\* Response validation of a list operation: the payload under the nesting
\* key must be a sequence and every element must fit the schema; the
\* instances come back one per element, in the upstream order.  An error of
\* _request passes through unchanged.
ListOp(key, req) ==
    IF req.raised THEN req
    ELSE IF req.value.payload # "list"
    THEN Raise("PlanfixValidationError", <<"Missing key in response: ", key>>)
    ELSE IF \E i \in 1..Len(req.value.items) : req.value.items[i] < IdMin
    THEN Raise("PlanfixValidationError", <<"Invalid element under ", key>>)
    ELSE Return(req.value)

\* Response validation of a single-entity read.
EntityOp(key, req) ==
    IF req.raised THEN req
    ELSE IF req.value.payload = "entity" THEN Return(req.value)
    ELSE IF req.value.payload = "badentity"
    THEN Raise("PlanfixValidationError", <<"Invalid payload under ", key>>)
    ELSE Raise("PlanfixValidationError", <<"Missing key in response: ", key>>)

\* PlanfixAPI.get_task: result.get("task", result), then task_data["id"].
\* A value under the key that is no object cannot be subscripted.
get_task(req) ==
    IF req.raised THEN req
    ELSE IF req.value.payload = "entity" THEN Return(req.value)
    ELSE IF req.value.payload = "scalar"
    THEN Raise("TypeError", <<"object is not subscriptable">>)
    ELSE Raise("KeyError", <<"'id'">>)

\* PlanfixAPI.get_contact has the same lookup and construction.
get_contact(req) == get_task(req)

\* Mutant: the instances are inserted at the front of the result list.
search_contacts_Prepends(req) ==
    IF req.raised THEN req
    ELSE IF req.value.payload = "list"
    THEN IF \E i \in 1..Len(req.value.items) : req.value.items[i] < IdMin
         THEN Raise("KeyError", <<"'id'">>)
         ELSE Return([req.value EXCEPT
                        !.items = [i \in 1..Len(req.value.items) |->
                                     req.value.items[Len(req.value.items) + 1 - i]]])
    ELSE IF req.value.payload = "scalar"
    THEN Raise("TypeError", <<"object is not iterable">>)
    ELSE Return(ListBody(<< >>))

\* PlanfixAPI.search_contacts, and with other keys search_tasks,
\* get_projects, get_contacts, list_employees, list_files, list_comments,
\* list_reports, list_processes: result.get(key, result.get("data", [])),
\* then one instance per element, built from element["id"].
search_contacts(req) ==
    IF req.raised THEN req
    ELSE IF req.value.payload = "list"
    THEN IF \E i \in 1..Len(req.value.items) : req.value.items[i] < IdMin
         THEN Raise("KeyError", <<"'id'">>)
         ELSE Return(req.value)
    ELSE IF req.value.payload = "scalar"
    THEN Raise("TypeError", <<"object is not iterable">>)
    ELSE Return(ListBody(<< >>))

\* The nesting key of each operation.
NestingKey(tool) ==
    CASE tool \in {"list_tasks", "dashboard"} -> "tasks"
      [] tool \in {"list_contacts", "contacts"} -> "contacts"
      [] tool = "list_employees" -> "users"
      [] tool = "list_files" -> "files"
      [] tool = "list_comments" -> "comments"
      [] tool = "list_reports" -> "reports"
      [] tool = "list_processes" -> "processes"
      [] tool = "projects" -> "projects"
      [] tool = "get_contact_details" -> "contact"
      [] tool = "get_comment" -> "comment"
      [] tool = "get_file" -> "file"
      [] tool = "get_project" -> "project"
      [] tool = "get_user" -> "user"
      [] OTHER -> "task"

\* The operation a handler awaits: step 2 is the dashboard's list_projects.
OpResult(tool, step, req) ==
    IF tool = "task" THEN get_task(req)
    ELSE IF tool \in GetTools THEN EntityOp(NestingKey(tool), req)
    ELSE IF tool = "dashboard" /\ step = 2 THEN ListOp("projects", req)
    ELSE ListOp(NestingKey(tool), req)

\* ------------------------------------------------------- handlers: texts

\* json.dumps([e.model_dump() for e in entities]): one element per entity.
RECURSIVE JsonDump(_)
JsonDump(ids) ==
    IF ids = << >> THEN << >>
    ELSE <<"{id: ", ToString(Head(ids)), "}">> \o JsonDump(Tail(ids))

JsonArray(ids) == <<"[">> \o JsonDump(ids) \o <<"]">>

\* Python truthiness of an Optional[int].
Truthy(o) == ~IsNone(o) /\ Val(o) # 0

\* Python truthiness of an Optional[str].
TruthyText(o) == ~IsNone(o) /\ Val(o) # ""

\* filter_str of list_files and list_comments.
FilterStr(tool, a) ==
    IF tool \notin {"list_files", "list_comments"} THEN << >>
    ELSE IF Truthy(a.task_id) /\ Truthy(a.project_id)
    THEN <<" (", "zadacha ", ToString(Val(a.task_id)), ", ",
           "proekt ", ToString(Val(a.project_id)), ")">>
    ELSE IF Truthy(a.task_id) THEN <<" (", "zadacha ", ToString(Val(a.task_id)), ")">>
    ELSE IF Truthy(a.project_id) THEN <<" (", "proekt ", ToString(Val(a.project_id)), ")">>
    ELSE << >>

\* The noun of the "total found" footer of each list tool.
FooterNoun(tool) ==
    CASE tool = "list_tasks" -> " zadach(i)"
      [] tool = "list_contacts" -> " kontakt(ov)"
      [] tool = "list_employees" -> " sotrudnik(ov)"
      [] tool = "list_files" -> " fail(ov)"
      [] tool = "list_comments" -> " kommentar(iev)"
      [] tool = "list_reports" -> " otchyot(ov)"
      [] OTHER -> " protsess(ov)"

\* Mutant: the hint is given only when the count exceeds the limit.
PaginationNote_StrictlyMore(tool, a, n) ==
    IF n > a.limit
    THEN <<"\n\nPokazany ", ToString(n), " rezultatov">> \o FilterStr(tool, a)
         \o <<" (limit: ", ToString(a.limit), ")">>
         \o (IF Truthy(a.page)
             THEN <<", stranitsa ", ToString(Val(a.page))>>
             ELSE <<", smeshchenie ", ToString(a.offset)>>)
         \o <<". Ispolzuite parametry offset/page dlya polucheniya sleduyushchikh rezultatov.">>
    ELSE <<"\n\nVsego naideno: ", ToString(n), FooterNoun(tool)>> \o FilterStr(tool, a)

\* Mutant: the hint names the position after the one shown.
PaginationNote_NextPosition(tool, a, n) ==
    IF n >= a.limit
    THEN <<"\n\nPokazany ", ToString(n), " rezultatov">> \o FilterStr(tool, a)
         \o <<" (limit: ", ToString(a.limit), ")">>
         \o (IF Truthy(a.page)
             THEN <<", stranitsa ", ToString(Val(a.page) + 1)>>
             ELSE <<", smeshchenie ", ToString(a.offset + a.limit)>>)
         \o <<". Ispolzuite parametry offset/page dlya polucheniya sleduyushchikh rezultatov.">>
    ELSE <<"\n\nVsego naideno: ", ToString(n), FooterNoun(tool)>> \o FilterStr(tool, a)

\* "Add pagination info": the note appended to the JSON array.
PaginationNote(tool, a, n) ==
    IF n >= a.limit
    THEN <<"\n\nPokazany ", ToString(n), " rezultatov">> \o FilterStr(tool, a)
         \o <<" (limit: ", ToString(a.limit), ")">>
         \o (IF Truthy(a.page)
             THEN <<", stranitsa ", ToString(Val(a.page))>>
             ELSE <<", smeshchenie ", ToString(get_offset(a))>>)
         \o <<". Ispolzuite parametry offset/page dlya polucheniya sleduyushchikh rezultatov.">>
    ELSE <<"\n\nVsego naideno: ", ToString(n), FooterNoun(tool)>> \o FilterStr(tool, a)

\* The text a handler returns when its operation returned v; n1 is the
\* number of active tasks the dashboard's first operation returned.
SuccessText(tool, a, v, n1) ==
    CASE tool \in ListTools ->
            JsonArray(v.items) \o PaginationNote(tool, a, Len(v.items))
      [] tool = "get_contact_details" ->
            <<"Kontakt #", ToString(a.id), "\n\n", "Imya: ">>
      [] tool \in GetTools -> <<"{id: ", ToString(a.id), "}">>
      [] tool = "projects" ->
            IF v.items = << >> THEN <<"Proekty ne naideny.">>
            ELSE <<"Proekty (", ToString(Len(v.items)), " sht.)\n\n">> \o JsonDump(v.items)
      [] tool = "contacts" ->
            IF v.items = << >> THEN <<"Kontakty ne naideny.">>
            ELSE <<"Nedavnie kontakty (", ToString(Len(v.items)), " sht.)\n\n">>
                 \o JsonDump(v.items)
      [] tool = "task" -> <<"Zadacha #", a.sid, "\n\n", "Nazvanie: ">>
      [] OTHER -> <<"Svodka Planfix", "- Aktivnye: ", ToString(n1),
                    "- Vsego proektov: ", ToString(Len(v.items))>>

\* The context string each handler gives format_error.
ErrorContext(tool) ==
    CASE tool = "list_tasks" -> "poiske zadach"
      [] tool = "list_contacts" -> "poiske kontaktov"
      [] tool = "get_contact_details" -> "poluchenii kontakta"
      [] tool = "get_comment" -> "poluchenii kommentariya"
      [] tool = "get_file" -> "poluchenii faila"
      [] tool = "get_project" -> "poluchenii proekta"
      [] tool = "get_user" -> "poluchenii polzovatelya"
      [] tool = "list_employees" -> "poluchenii sotrudnikov"
      [] tool = "list_files" -> "poluchenii failov"
      [] tool = "list_comments" -> "poluchenii kommentariev"
      [] tool = "list_reports" -> "poluchenii otchyotov"
      [] tool = "list_processes" -> "poluchenii protsessov"
      [] OTHER -> ""

ResourcePrefix(tool) ==
    CASE tool = "dashboard" -> "Oshibka polucheniya svodki: "
      [] tool = "projects" -> "Oshibka polucheniya proektov: "
      [] tool = "task" -> "Oshibka polucheniya zadachi: "
      [] OTHER -> "Oshibka polucheniya kontaktov: "

\* What a handler hands to its caller: a text, or an exception that no
\* except clause caught.
Text(t) == [exc |-> "", text |-> t]
Escapes(e) == [exc |-> e.cls, text |-> << >>]

\* Mutant: the handlers catch PlanfixError only.
HandlerExcept_NoCatchAll(tool, e) ==
    IF IsInstance(e.cls, "PlanfixError")
    THEN Text(format_error(e.msg, ErrorContext(tool)))
    ELSE Escapes(e)

\* The except clauses of a handler, tried in order on the exception e that
\* its try block raised; the last clause of every handler is
\* `except Exception`.
HandlerExcept(tool, e) ==
    IF tool \in {"list_tasks", "list_contacts"} /\ IsInstance(e.cls, "PlanfixValidationError")
    THEN Text(<<"Oshibka validatsii: ">> \o e.msg)
    ELSE IF tool \in {"get_contact_details", "list_employees", "list_files",
                      "list_comments", "list_reports", "list_processes"}
            /\ IsInstance(e.cls, "PlanfixValidationError")
    THEN Text(e.msg)
    ELSE IF tool = "list_tasks" /\ IsInstance(e.cls, "PlanfixError")
    THEN Text(format_error(e.msg, ErrorContext(tool)))
    ELSE IF IsInstance(e.cls, "Exception")
    THEN IF tool \in Resources
         THEN Text(<<ResourcePrefix(tool)>> \o format_error(e.msg, ""))
         ELSE Text(format_error(e.msg, ErrorContext(tool)))
    ELSE Escapes(e)

\* ------------------------------------------------------------------ state

VARIABLES
    phase,  \* server_lifespan: "init", "probing", "serving", "failed", "stopped"
    api,    \* the module-level client handle: "None" or "PlanfixAPI"
    cur,    \* the handler invocation in progress or last finished
    prev,   \* history: the last call a list tool made to the operation layer
    probe,  \* connection_ok of server_lifespan: "none", "True" or "False"
    other,  \* a second handler invocation, in flight at the same time as cur
    args,   \* main: the parsed command line, once parse_args has run
    config, \* the module-level PlanfixConfig instance
    self    \* the attributes of the PlanfixAPI instance behind `api`

vars == <<phase, api, cur, prev, probe, other, args, config, self>>

\* ----------------------------------------------------------- configuration

\* str() of an optional text inside an f-string.
Str(o) == IF IsNone(o) THEN "None" ELSE Val(o)

RECURSIVE RStrip(_)
\* url.rstrip("/") on a text of tokens.
RStrip(url) ==
    IF url # << >> /\ url[Len(url)] = "/" THEN RStrip(SubSeq(url, 1, Len(url) - 1))
    ELSE url

\* PlanfixConfig.build_base_url, the validator that runs before the fields
\* are set: a given base URL loses its trailing slashes, otherwise the URL
\* is built from the account, which is then required.
build_base_url(values) ==
    IF ~IsNone(values.planfix_base_url)
    THEN [raised |-> FALSE,
          value |-> [values EXCEPT !.planfix_base_url = Some(RStrip(Val(@)))]]
    ELSE IF ~TruthyText(values.planfix_account)
    THEN [raised |-> TRUE, value |-> values]
    ELSE [raised |-> FALSE,
          value |-> [values EXCEPT !.planfix_base_url =
                        Some(<<"https://", Val(values.planfix_account), ".planfix.ru">>)]]

\* get_config: PlanfixConfig() from the environment; a validation error
\* becomes RuntimeError and the module is not imported.
get_config(env) == build_base_url(env)

\* The values the environment and .env can give the three settings.
Environments ==
    [planfix_account : {None, Some("acme")},
     planfix_api_key : {None, Some("envkey")},
     planfix_base_url : {None, Some(<<"https://proxy.example", "/">>)}]

\* The configurations with which the server module is imported.
Configs == {get_config(env).value : env \in {e \in Environments : ~get_config(e).raised}}

DefaultConfig ==
    get_config([planfix_account |-> Some("acme"), planfix_api_key |-> Some("envkey"),
                planfix_base_url |-> None]).value

NoHeaders == [Authorization |-> << >>]
NoClient == [base_url |-> << >>, headers |-> NoHeaders]

\* PlanfixAPI.__init__: the base URL and the headers are computed from the
\* configuration as it is when the client is constructed.
PlanfixAPI(cfg) ==
    [base_url |-> Val(cfg.planfix_base_url) \o <<"/rest">>,
     headers |-> [Authorization |-> <<"Bearer ", Str(cfg.planfix_api_key)>>]]

\* The command lines: --account and --api-key absent, empty or given.
NotParsed == [parsed |-> FALSE, account |-> None, api_key |-> None]

CommandLines ==
    [parsed : {TRUE},
     account : {None, Some(""), Some("acme"), Some("other")},
     api_key : {None, Some(""), Some("clikey")}]

\* Mutant: the --api-key argument is parsed and not applied.
main_KeepsKey(cfg, a) ==
    [cfg EXCEPT !.planfix_account = IF TruthyText(a.account) THEN a.account ELSE @]

\* main: the arguments that are truthy are assigned to the attributes of
\* config; nothing else of config is recomputed.
main(cfg, a) ==
    [cfg EXCEPT !.planfix_account = IF TruthyText(a.account) THEN a.account ELSE @,
                !.planfix_api_key = IF TruthyText(a.api_key) THEN a.api_key ELSE @]

NoPassed == [set |-> FALSE, offset |-> 0, limit |-> 0]
Passed(o, l) == [set |-> TRUE, offset |-> o, limit |-> l]

Idle ==
    [pc |-> "idle", tool |-> "", args |-> DefaultArgs, step |-> 0, sent |-> 0,
     first |-> 0, passed |-> NoPassed, out1 |-> NoOutcome, out |-> NoOutcome,
     req |-> Return(NoBody),
     op |-> Return(NoBody), exc |-> "", text |-> << >>,
     http |-> [method |-> "", path |-> << >>, payload |-> {},
               base_url |-> << >>, headers |-> NoHeaders],
     context |-> "", clients |-> {}]

NoPrev == [tool |-> "", args |-> DefaultArgs, passed |-> NoPassed]

\* ----------------------------------------------------------------- inputs

OffsetInputs == -1..MaxOffsetIn
LimitInputs == (0..MaxLimitIn) \cup {LimitMax + 1}
PageInputs == {None} \cup {Some(p) : p \in 0..MaxPageIn}
IdInputs == 0..MaxIdIn
IdOpts == {None} \cup {Some(i) : i \in IdInputs}
StatusInputs == {"active", "all", "bogus"}
TaskIdTexts == {"abc", "-1", "0", "1"}

\* Every combination of the pagination arguments.
PaginationArgs ==
    {[DefaultArgs EXCEPT !.offset = o, !.limit = l, !.page = p] :
        o \in OffsetInputs, l \in LimitInputs, p \in PageInputs}

\* The filters of a tool, with a limit the upstream array can reach.
FilterArgs(tool) ==
    CASE tool = "list_tasks" ->
            {[DefaultArgs EXCEPT !.limit = LimitMin, !.project_id = p,
                                 !.assignee_id = u, !.status = s] :
                p \in IdOpts, u \in IdOpts, s \in StatusInputs}
      [] tool \in {"list_files", "list_comments"} ->
            {[DefaultArgs EXCEPT !.limit = LimitMin, !.task_id = t, !.project_id = p] :
                t \in IdOpts, p \in IdOpts}
      [] tool = "list_contacts" ->
            {[DefaultArgs EXCEPT !.is_company = c] : c \in BOOLEAN}
      [] OTHER -> {}

ArgsOf(tool) ==
    CASE tool \in ListTools -> PaginationArgs \cup FilterArgs(tool)
      [] tool \in GetTools -> {[DefaultArgs EXCEPT !.id = i] : i \in IdInputs}
      [] tool = "task" -> {[DefaultArgs EXCEPT !.sid = t] : t \in TaskIdTexts}
      [] OTHER -> {DefaultArgs}

\* --------------------------------------------------- handlers: first part

\* A handler up to its first await: it has returned a text, or it has
\* called the operation layer, which issues one request.
Finished(r) == [done |-> TRUE, result |-> r, passed |-> NoPassed]
Calls(passed) == [done |-> FALSE, result |-> Text(<< >>), passed |-> passed]

\* Mutant: the arguments are used without validate_input.
ToolStart_NoValidation(tool, a, handle) ==
    IF handle = "None" THEN Finished(Text(<<"API ne initsializirovan">>))
    ELSE IF tool \in ListTools THEN Calls(Passed(get_offset(a), a.limit))
    ELSE Calls(NoPassed)

\* Mutant: the handle is checked before the arguments are validated.
ToolStart_HandleFirst(tool, a, handle) ==
    IF handle = "None" THEN Finished(Text(<<"API ne initsializirovan">>))
    ELSE IF validate_input(tool, a).raised
    THEN Finished(HandlerExcept(tool, validate_input(tool, a)))
    ELSE IF tool \in ListTools THEN Calls(Passed(get_offset(a), a.limit))
    ELSE Calls(NoPassed)

\* A tool: validate_input, then the check of the handle, then the call.
ToolStart(tool, a, handle) ==
    IF validate_input(tool, a).raised
    THEN Finished(HandlerExcept(tool, validate_input(tool, a)))
    ELSE IF handle = "None" THEN Finished(Text(<<"API ne initsializirovan">>))
    ELSE IF tool \in ListTools THEN Calls(Passed(get_offset(a), a.limit))
    ELSE Calls(NoPassed)

\* int(task_id) of get_task_details: the texts that are no integer raise
\* ValueError.
IsIntText(t) == t \in {"-1", "0", "1"}
IntOf(t) == CASE t = "1" -> 1 [] t = "-1" -> -1 [] OTHER -> 0

\* Mutant: get_task_details accepts every integer text, zero and negative
\* numbers included.
ResourceStart_AnyInteger(tool, a, handle) ==
    IF tool = "task" /\ ~IsIntText(a.sid)
    THEN Finished(Text(<<"Nevernyi ID zadachi: ", a.sid>>))
    ELSE IF handle = "None"
    THEN Finished(HandlerExcept(tool,
            Raise("AttributeError", <<"'NoneType' object has no attribute">>)))
    ELSE IF tool = "contacts" THEN Calls(Passed(OffsetMin, RecentLimit))
    ELSE Calls(NoPassed)

\* A resource: no check of the handle, so api.<operation> on None raises
\* AttributeError inside the try block.
ResourceStart(tool, a, handle) ==
    IF tool = "task" /\ (~IsIntText(a.sid) \/ IntOf(a.sid) < IdMin)
    THEN Finished(Text(<<"Nevernyi ID zadachi: ", a.sid>>))
    ELSE IF handle = "None"
    THEN Finished(HandlerExcept(tool,
            Raise("AttributeError", <<"'NoneType' object has no attribute">>)))
    ELSE IF tool = "contacts" THEN Calls(Passed(OffsetMin, RecentLimit))
    ELSE Calls(NoPassed)

HandlerStart(tool, a, handle) ==
    IF tool \in Resources THEN ResourceStart(tool, a, handle)
    ELSE ToolStart(tool, a, handle)

\* ---------------------------------------------------------------- actions

Init ==
    /\ phase = "init"
    /\ api = "None"
    /\ cur = Idle
    /\ prev = NoPrev
    /\ probe = "none"
    /\ other = Idle
    /\ args = NotParsed
    /\ config = DefaultConfig
    /\ self = NoClient

\* The state of the handler after its first part.
Started(tool, a) ==
    LET s == HandlerStart(tool, a, api)
    IN  [Idle EXCEPT !.pc = IF s.done THEN "done" ELSE "awaiting",
                     !.tool = tool, !.args = a,
                     !.step = IF s.done THEN 0 ELSE 1,
                     !.sent = IF s.done THEN 0 ELSE 1,
                     !.passed = s.passed, !.exc = s.result.exc,
                     !.text = s.result.text,
                     !.clients = IF s.done THEN {} ELSE {1},
                     !.http = IF s.done THEN @
                              ELSE [@ EXCEPT !.base_url = self.base_url,
                                             !.headers = self.headers]]

\* Handlers are invoked one at a time here: by the host while serving, or
\* directly while the server has not been started.
CanInvoke == phase \in {"init", "serving"} /\ cur.pc = "idle"

\* A tool is invoked.
InvokeTool(tool, a) ==
    /\ CanInvoke
    /\ tool \in Tools
    /\ cur' = Started(tool, a)
    /\ UNCHANGED <<phase, api, prev, probe, other, args, config, self>>

\* A resource is read.
ReadResource(tool, a) ==
    /\ CanInvoke
    /\ tool \in Resources
    /\ cur' = Started(tool, a)
    /\ UNCHANGED <<phase, api, prev, probe, other, args, config, self>>

\* Mutant: the client is closed after a response only; a request that
\* raises leaves it open.
AsyncWith_LeaksOnFailure(open, k, out) ==
    IF out.type = "response" THEN open \ {k} ELSE open

\* `async with httpx.AsyncClient(...) as client` of _request: the client
\* opened for request k of the invocation is closed when the block is left,
\* by return or by exception, whatever the outcome of the request.
AsyncWith(open, k, out) == open \ {k}

\* Mutant: the arguments are kept in a module-level variable that the
\* invocation started last (cur) has overwritten.
AfterResponse_SharedArgs(c, out) ==
    LET req == Request(out)
        op == OpResult(c.tool, c.step, req)
        r == IF op.raised THEN HandlerExcept(c.tool, op)
             ELSE Text(SuccessText(c.tool, cur.args, op.value, c.first))
    IN  IF c.tool = "dashboard" /\ c.step = 1 /\ ~op.raised
        THEN [c EXCEPT !.clients = AsyncWith(@, 1, out) \cup {2},
                       !.step = 2, !.sent = 2, !.out1 = out, !.out = out, !.req = req,
                       !.op = op, !.first = Len(op.value.items)]
        ELSE [c EXCEPT !.clients = AsyncWith(@, c.sent, out),
                       !.pc = "done", !.out = out, !.req = req,
                       !.out1 = IF c.step = 1 THEN out ELSE @,
                       !.op = op, !.exc = r.exc, !.text = r.text]

\* Mutant: a request that failed is sent once more.
AfterResponse_RetriesOnce(c, out) ==
    LET req == Request(out)
        op == OpResult(c.tool, c.step, req)
        r == IF op.raised THEN HandlerExcept(c.tool, op)
             ELSE Text(SuccessText(c.tool, c.args, op.value, c.first))
    IN  IF req.raised /\ c.sent = 1
        THEN [c EXCEPT !.clients = AsyncWith(@, 1, out) \cup {2},
                       !.sent = 2, !.out = out, !.req = req, !.op = op]
        ELSE [c EXCEPT !.clients = AsyncWith(@, c.sent, out),
                       !.pc = "done", !.out = out, !.req = req,
                       !.out1 = IF c.step = 1 THEN out ELSE @,
                       !.op = op, !.exc = r.exc, !.text = r.text]

\* Mutant: a lock held across the await makes cur wait until the other
\* invocation has its response.
AfterResponse_WaitsForOther(c, out) ==
    LET req == Request(out)
        op == OpResult(c.tool, c.step, req)
        r == IF op.raised THEN HandlerExcept(c.tool, op)
             ELSE Text(SuccessText(c.tool, c.args, op.value, c.first))
    IN  IF c = cur /\ other.pc = "awaiting" THEN c
        ELSE IF c.tool = "dashboard" /\ c.step = 1 /\ ~op.raised
        THEN [c EXCEPT !.clients = AsyncWith(@, 1, out) \cup {2},
                       !.step = 2, !.sent = 2, !.out1 = out, !.out = out, !.req = req,
                       !.op = op, !.first = Len(op.value.items)]
        ELSE [c EXCEPT !.clients = AsyncWith(@, c.sent, out),
                       !.pc = "done", !.out = out, !.req = req,
                       !.out1 = IF c.step = 1 THEN out ELSE @,
                       !.op = op, !.exc = r.exc, !.text = r.text]

\* The invocation c after its request has ended with `out`: the handler
\* runs to its return, or, in the dashboard after list_tasks, to its second
\* request.
AfterResponse(c, out) ==
    LET req == Request(out)
        op == OpResult(c.tool, c.step, req)
        r == IF op.raised THEN HandlerExcept(c.tool, op)
             ELSE Text(SuccessText(c.tool, c.args, op.value, c.first))
    IN  IF c.tool = "dashboard" /\ c.step = 1 /\ ~op.raised
        THEN [c EXCEPT !.clients = AsyncWith(@, 1, out) \cup {2},
                       !.step = 2, !.sent = 2, !.out1 = out, !.out = out, !.req = req,
                       !.op = op, !.first = Len(op.value.items)]
        ELSE [c EXCEPT !.clients = AsyncWith(@, c.sent, out),
                       !.pc = "done", !.out = out, !.req = req,
                       !.out1 = IF c.step = 1 THEN out ELSE @,
                       !.op = op, !.exc = r.exc, !.text = r.text]

\* The request of the awaiting handler ends with `out`.
UpstreamResponds(out) ==
    /\ cur.pc = "awaiting"
    /\ cur' = AfterResponse(cur, out)
    /\ UNCHANGED <<phase, api, prev, probe, other, args, config, self>>

\* The caller takes the text the handler returned.
Deliver ==
    /\ cur.pc = "done"
    /\ cur' = Idle
    /\ UNCHANGED <<phase, api, prev, probe, other, args, config, self>>

\* server_lifespan up to the await of test_connection: api = PlanfixAPI().
LifespanStart ==
    /\ phase = "init"
    /\ cur.pc # "awaiting"
    /\ phase' = "probing"
    /\ api' = "PlanfixAPI"
    /\ self' = PlanfixAPI(config)
    /\ UNCHANGED <<cur, prev, probe, other, args, config>>

\* Mutant: the probe reports success whatever _request did.
test_connection_AlwaysTrue(out) == TRUE

\* PlanfixAPI.test_connection: True when _request returns, False when it
\* raises.
test_connection(out) == ~Request(out).raised

\* Mutant: server_lifespan yields whatever the probe returned.
ProbeReturns_IgnoresResult(out) ==
    /\ phase = "probing"
    /\ probe' = IF test_connection(out) THEN "True" ELSE "False"
    /\ phase' = "serving"
    /\ UNCHANGED <<api, cur, prev, other, args, config, self>>

\* The probe ends: server_lifespan yields, or raises RuntimeError.
ProbeReturns(out) ==
    /\ phase = "probing"
    /\ probe' = IF test_connection(out) THEN "True" ELSE "False"
    /\ phase' = IF test_connection(out) THEN "serving" ELSE "failed"
    /\ UNCHANGED <<api, cur, prev, other, args, config, self>>

\* Mutant: the finally block tears the handle down.
Shutdown_ResetsHandle ==
    /\ phase = "serving"
    /\ cur.pc # "awaiting"
    /\ phase' = "stopped"
    /\ api' = "None"
    /\ UNCHANGED <<cur, prev, probe, other, args, config, self>>

\* The finally block of server_lifespan: the handle is left as it is.
Shutdown ==
    /\ phase = "serving"
    /\ cur.pc # "awaiting"
    /\ phase' = "stopped"
    /\ UNCHANGED <<api, cur, prev, probe, other, args, config, self>>

Next ==
    \/ \E tool \in Tools : \E a \in ArgsOf(tool) : InvokeTool(tool, a)
    \/ \E tool \in Resources : \E a \in ArgsOf(tool) : ReadResource(tool, a)
    \/ \E out \in Outcomes : UpstreamResponds(out)
    \/ Deliver
    \/ LifespanStart
    \/ \E out \in Outcomes : ProbeReturns(out)
    \/ Shutdown

Spec == Init /\ [][Next]_vars

\* ------------------------------------------- two calls of one list tool

\* The same server with a history variable: prev keeps the arguments of the
\* last finished invocation that called the operation layer, and what it
\* passed.  One list tool is invoked throughout a behaviour.
PairOutcomes ==
    {[type |-> "timeout", status |-> 0, body |-> NoBody, err |-> "Timeout"]}
    \cup {Response(200, ListBody(Ascending(n))) : n \in 0..1}

InvokeListTool(tool, a) ==
    /\ CanInvoke
    /\ tool \in ListTools
    /\ prev.tool \in {"", tool}
    /\ cur' = Started(tool, a)
    /\ UNCHANGED <<phase, api, prev, probe, other, args, config, self>>

DeliverRecorded ==
    /\ cur.pc = "done"
    /\ cur' = Idle
    /\ prev' = IF cur.passed.set
               THEN [tool |-> cur.tool, args |-> cur.args, passed |-> cur.passed]
               ELSE prev
    /\ UNCHANGED <<phase, api, probe, other, args, config, self>>

NextPair ==
    \/ \E tool \in ListTools : \E a \in PaginationArgs : InvokeListTool(tool, a)
    \/ \E out \in PairOutcomes : UpstreamResponds(out)
    \/ DeliverRecorded
    \/ LifespanStart
    \/ \E out \in PairOutcomes : ProbeReturns(out)

SpecPair == Init /\ [][NextPair]_vars

\* --------------------------------------------- the client called directly

\* The read operations of PlanfixAPI, called on a client of their own (as
\* the API tests do): one call at a time, each awaiting one _request.
ListOperations ==
    {"search_tasks", "get_projects", "get_contacts", "search_contacts",
     "list_employees", "list_files", "list_comments", "list_reports",
     "list_processes"}
GetOperations == {"get_task", "get_contact"}

\* create_task, create_project, add_contact: result.get(key, result), then
\* the id of the created entity as in get_task.
CreateOperations == {"create_task", "create_project", "add_contact"}
\* update_task_status, add_task_comment: return True once _request returned.
UpdateOperations == {"update_task_status", "add_task_comment"}

Operations ==
    ListOperations \cup GetOperations \cup CreateOperations \cup UpdateOperations

\* What the operation does with the result of its _request.
Operation(name, req) ==
    IF name \in GetOperations
    THEN IF name = "get_task" THEN get_task(req) ELSE get_contact(req)
    ELSE IF name \in CreateOperations THEN get_task(req)
    ELSE IF name \in UpdateOperations
    THEN IF req.raised THEN req ELSE Return(ShapeBody("True"))
    ELSE search_contacts(req)

\* The HTTP method each operation hands to _request.
Method(name) == IF name = "get_contact" THEN "GET" ELSE "POST"

\* The endpoint each operation hands to _request.
Path(name, a) ==
    CASE name \in {"get_task", "update_task_status"} -> <<"task/", ToString(a.id)>>
      [] name = "get_contact" -> <<"contact/", ToString(a.id)>>
      [] name = "add_task_comment" -> <<"task/", ToString(a.id), "/comment">>
      [] name = "create_task" -> <<"task">>
      [] name = "create_project" -> <<"project">>
      [] name = "add_contact" -> <<"contact">>
      [] name = "search_tasks" -> <<"task/list">>
      [] name = "get_projects" -> <<"project/list">>
      [] name \in {"get_contacts", "search_contacts"} -> <<"contact/list">>
      [] name = "list_employees" -> <<"user/list">>
      [] name = "list_files" -> <<"file/list">>
      [] name = "list_comments" -> <<"comment/list">>
      [] name = "list_reports" -> <<"report/list">>
      [] OTHER -> <<"process/list">>

\* Python truthiness of an Optional[str].

\* One key of a request body with its value; None would be sent as null.
Field(key, value) == <<key, value>>
OptField(key, o) == <<key, IF IsNone(o) THEN "null" ELSE ToString(Val(o))>>
OptTextField(key, o) == <<key, IF IsNone(o) THEN "null" ELSE Val(o)>>

\* Mutant: the optional arguments are copied into the body as they are,
\* unset ones as null.
Payload_SendsNulls(name, a) ==
    CASE name = "create_task" ->
            {Field("name", "Task"), Field("description", ""), Field("priority", "NORMAL"),
             OptField("project", a.project_id), OptField("assignee", a.assignee_id),
             OptTextField("endDatePlan", a.deadline)}
      [] name = "search_tasks" ->
            {Field("fields", "id,name,status,assignee,project,endDatePlan,priority"),
             Field("name", a.query),
             OptField("project", a.project_id), OptField("assignee", a.assignee_id),
             Field("status", a.status)}
      [] OTHER -> {}

\* The body create_task and search_tasks hand to _request: the fixed keys,
\* then one key per argument that is truthy (`if project_id:`), and in
\* search_tasks the status unless it is "all".  The bodies of the other
\* operations are not modelled.
Payload(name, a) ==
    CASE name = "create_task" ->
            {Field("name", "Task"), Field("description", ""), Field("priority", "NORMAL")}
            \cup (IF Truthy(a.project_id) THEN {OptField("project", a.project_id)} ELSE {})
            \cup (IF Truthy(a.assignee_id) THEN {OptField("assignee", a.assignee_id)} ELSE {})
            \cup (IF TruthyText(a.deadline)
                  THEN {OptTextField("endDatePlan", a.deadline)} ELSE {})
      [] name = "search_tasks" ->
            {Field("fields", "id,name,status,assignee,project,endDatePlan,priority")}
            \cup (IF a.query # "" THEN {Field("name", a.query)} ELSE {})
            \cup (IF Truthy(a.project_id) THEN {OptField("project", a.project_id)} ELSE {})
            \cup (IF Truthy(a.assignee_id) THEN {OptField("assignee", a.assignee_id)} ELSE {})
            \cup (IF a.status # "all" THEN {Field("status", a.status)} ELSE {})
      [] OTHER -> {}

DeadlineInputs == {None, Some(""), Some("2024-12-31")}

OperationArgs(name) ==
    CASE name \in GetOperations \cup UpdateOperations ->
            {[DefaultArgs EXCEPT !.id = i] : i \in IdMin..(IdMin + MaxIdIn)}
      [] name = "create_task" ->
            {[DefaultArgs EXCEPT !.project_id = p, !.assignee_id = u, !.deadline = d] :
                p \in IdOpts, u \in IdOpts, d \in DeadlineInputs}
      [] name = "search_tasks" ->
            {[DefaultArgs EXCEPT !.project_id = p, !.assignee_id = u, !.query = q,
                                 !.status = st] :
                p \in IdOpts, u \in IdOpts, q \in {"", "test"},
                st \in {"active", "completed", "all"}}
      [] OTHER ->
            {[DefaultArgs EXCEPT !.limit = l] : l \in LimitMin..(LimitMin + MaxLimitIn)}

\* The operation is called and awaits its request.
CallOperation(name, a) ==
    /\ cur.pc = "idle"
    /\ cur' = [Idle EXCEPT !.pc = "calling", !.tool = name, !.args = a,
                           !.step = 1, !.sent = 1, !.clients = {1},
                           !.http = [method |-> Method(name), path |-> Path(name, a),
                                     payload |-> Payload(name, a),
                                     base_url |-> PlanfixAPI(config).base_url,
                                     headers |-> PlanfixAPI(config).headers]]
    /\ UNCHANGED <<phase, api, prev, probe, other, args, config, self>>

\* The request ends with `out`; the operation returns or raises.
OperationEnds(out) ==
    /\ cur.pc = "calling"
    /\ LET req == Request(out)
           op == Operation(cur.tool, req)
       IN  cur' = [cur EXCEPT !.clients = AsyncWith(@, 1, out),
                              !.pc = "done", !.out = out, !.req = req, !.op = op,
                              !.exc = IF op.raised THEN op.cls ELSE ""]
    /\ UNCHANGED <<phase, api, prev, probe, other, args, config, self>>

NextApi ==
    \/ \E name \in Operations : \E a \in OperationArgs(name) : CallOperation(name, a)
    \/ \E out \in Outcomes : OperationEnds(out)
    \/ Deliver

SpecApi == Init /\ [][NextApi]_vars

\* test_connection called on a client of its own: the probe request is
\* POST contact/list, and the except clause turns every failure into False.
CallTestConnection ==
    /\ cur.pc = "idle"
    /\ cur' = [Idle EXCEPT !.pc = "probing", !.tool = "test_connection",
                           !.step = 1, !.sent = 1, !.clients = {1},
                           !.http = [method |-> "POST", path |-> <<"contact/list">>,
                                     payload |-> {},
                                     base_url |-> PlanfixAPI(config).base_url,
                                     headers |-> PlanfixAPI(config).headers]]
    /\ UNCHANGED <<phase, api, prev, probe, other, args, config, self>>

TestConnectionEnds(out) ==
    /\ cur.pc = "probing"
    /\ cur' = [cur EXCEPT !.clients = AsyncWith(@, 1, out),
                          !.pc = "done", !.out = out, !.req = Request(out),
                          !.op = Return(ShapeBody(IF test_connection(out)
                                                  THEN "True" ELSE "False"))]
    /\ UNCHANGED <<phase, api, prev, probe, other, args, config, self>>

NextProbe ==
    \/ NextApi
    \/ CallTestConnection
    \/ \E out \in Outcomes : TestConnectionEnds(out)

SpecProbe == Init /\ [][NextProbe]_vars

\* ------------------------------------------------- format_error applied

\* format_error applied to an exception with the message msg (str(error))
\* and a context, as its callers and its tests do.
MaxMsgTokens == 2

MessageTokens ==
    {"401", "403", "404", "Unauthorized", "UNAUTHORIZED", "Forbidden access",
     "FORBIDDEN", "Not found", "NOT FOUND", "Request timeout occurred", "TIMEOUT",
     "Connection failed", "CONNECTION reset", "Connection timeout",
     "Generic error message", "Prevysheno vremya ozhidaniya zaprosa"}

Messages == UNION {[1..n -> MessageTokens] : n \in 1..MaxMsgTokens}

Contexts == {"", "sozdanii zadachi"}

FormatError(msg, ctx) ==
    /\ cur.pc = "idle"
    /\ cur' = [Idle EXCEPT !.pc = "done", !.tool = "format_error",
                           !.req = Raise("Exception", msg), !.context = ctx,
                           !.text = format_error(msg, ctx)]
    /\ UNCHANGED <<phase, api, prev, probe, other, args, config, self>>

NextFormat ==
    \/ \E msg \in Messages : \E ctx \in Contexts : FormatError(msg, ctx)
    \/ Deliver

SpecFormat == Init /\ [][NextFormat]_vars

\* ------------------------------------------- two invocations in flight

\* While serving, the host may start a handler while another one awaits its
\* request: cur and other are two such invocations, each with its own
\* request (an httpx.AsyncClient per _request) and its own response.
ConcTools == {"list_tasks", "get_project", "dashboard"}

ConcArgs(tool) ==
    CASE tool = "list_tasks" ->
            {[DefaultArgs EXCEPT !.limit = l, !.page = p] :
                l \in LimitMin..(LimitMin + 1), p \in {None, Some(PageMin + 1)}}
            \cup {[DefaultArgs EXCEPT !.limit = LimitMin - 1]}
      [] tool = "get_project" -> {[DefaultArgs EXCEPT !.id = i] : i \in IdInputs}
      [] OTHER -> {DefaultArgs}

ConcOutcomes ==
    {[type |-> "timeout", status |-> 0, body |-> NoBody, err |-> "Timeout"],
     Response(404, TextBody("oops")),
     Response(200, ShapeBody("entity"))}
    \cup {Response(200, ListBody(Ascending(n))) : n \in 1..2}

InvokeWhileServing(tool, a) ==
    /\ phase = "serving"
    /\ cur.pc = "idle"
    /\ cur' = Started(tool, a)
    /\ UNCHANGED <<phase, api, prev, probe, other, args, config, self>>

InvokeOther(tool, a) ==
    /\ phase = "serving"
    /\ other.pc = "idle"
    /\ other' = Started(tool, a)
    /\ UNCHANGED <<phase, api, cur, prev, probe, args, config, self>>

OtherResponds(out) ==
    /\ other.pc = "awaiting"
    /\ other' = AfterResponse(other, out)
    /\ UNCHANGED <<phase, api, cur, prev, probe, args, config, self>>

DeliverOther ==
    /\ other.pc = "done"
    /\ other' = Idle
    /\ UNCHANGED <<phase, api, cur, prev, probe, args, config, self>>

NextConc ==
    \/ \E tool \in ConcTools : \E a \in ConcArgs(tool) : InvokeWhileServing(tool, a)
    \/ \E tool \in ConcTools : \E a \in ConcArgs(tool) : InvokeOther(tool, a)
    \/ \E out \in ConcOutcomes : UpstreamResponds(out)
    \/ \E out \in ConcOutcomes : OtherResponds(out)
    \/ Deliver
    \/ DeliverOther
    \/ LifespanStart
    \/ \E out \in ConcOutcomes : ProbeReturns(out)

SpecConc == Init /\ [][NextConc]_vars

\* The HTTP call that cur awaits eventually ends (httpx gives a response,
\* or raises on the timeout of the client or on a failure); nothing is
\* assumed of the call that the other invocation awaits.
SpecLive ==
    Init /\ [][NextConc]_vars
         /\ WF_vars(\E out \in ConcOutcomes : UpstreamResponds(out))

\* ------------------------------------------------ the server started by main

\* main parses the command line and applies it to config, then mcp.run
\* enters server_lifespan and serves.  The module has been imported with
\* any of the configurations the environment can give.
InitMain ==
    /\ phase = "init"
    /\ api = "None"
    /\ cur = Idle
    /\ prev = NoPrev
    /\ probe = "none"
    /\ other = Idle
    /\ args = NotParsed
    /\ config \in Configs
    /\ self = NoClient

RunMain(a) ==
    /\ phase = "init"
    /\ ~args.parsed
    /\ cur.pc = "idle"
    /\ args' = a
    /\ config' = main(config, a)
    /\ UNCHANGED <<phase, api, cur, prev, probe, other, self>>

NextMain ==
    \/ \E a \in CommandLines : RunMain(a)
    \/ args.parsed /\ LifespanStart
    \/ args.parsed /\ \E out \in ConcOutcomes : ProbeReturns(out)
    \/ \E tool \in ConcTools : \E a \in ConcArgs(tool) : InvokeWhileServing(tool, a)
    \/ \E out \in ConcOutcomes : UpstreamResponds(out)
    \/ Deliver
    \/ Shutdown

SpecMain == InitMain /\ [][NextMain]_vars

\* ------------------------------------------------- the clients of _request

\* Two invocations in flight, their requests ending on each path out of the
\* `async with` block of _request: a response that is returned, a response
\* with an error status, a timeout, a connection failure, another exception.
ClientOutcomes ==
    ConcOutcomes
    \cup {[type |-> "connect", status |-> 0, body |-> NoBody, err |-> "Connection failed"],
          [type |-> "error", status |-> 0, body |-> NoBody, err |-> "boom"]}

NextClients ==
    \/ \E tool \in ConcTools : \E a \in ConcArgs(tool) : InvokeWhileServing(tool, a)
    \/ \E tool \in ConcTools : \E a \in ConcArgs(tool) : InvokeOther(tool, a)
    \/ \E out \in ClientOutcomes : UpstreamResponds(out)
    \/ \E out \in ClientOutcomes : OtherResponds(out)
    \/ Deliver
    \/ DeliverOther
    \/ LifespanStart
    \/ \E out \in ClientOutcomes : ProbeReturns(out)

SpecClients == Init /\ [][NextClients]_vars

\* The server and the directly called client in one specification.
NextAll == Next \/ NextApi

SpecAll == Init /\ [][NextAll]_vars

\* ------------------------------------------- the operations handlers call

\* The operations of the client that create or change upstream data.
WriteOperations ==
    {"create_task", "update_task_status", "add_task_comment", "create_project",
     "add_contact"}

\* The method of `api` a handler awaits at its step: the tools await the
\* method of their own name, the resources the methods below.
OperationOf(tool, step) ==
    CASE tool = "dashboard" -> IF step = 2 THEN "list_projects" ELSE "list_tasks"
      [] tool = "projects" -> "list_projects"
      [] tool = "task" -> "get_task"
      [] tool = "contacts" -> "list_contacts"
      [] OTHER -> tool

\* ------------------------------------------------------ reading the state

\* A _request call has ended in the invocation at hand.
RequestEnded == cur.out.type # "none"

HintToken == "\n\nPokazany "
FooterToken == "\n\nVsego naideno: "
UseParamsToken ==
    ". Ispolzuite parametry offset/page dlya polucheniya sleduyushchikh rezultatov."
ValidationToken == "Oshibka validatsii vkhodnykh dannykh:"

Has(text, tok) == \E i \in 1..Len(text) : text[i] = tok
Occurrences(text, tok) == Cardinality({i \in 1..Len(text) : text[i] = tok})
\* The token that follows the first occurrence of tok.
After(text, tok) ==
    LET i == CHOOSE j \in 1..Len(text) : text[j] = tok /\ \A k \in 1..(j - 1) : text[k] # tok
    IN  IF i < Len(text) THEN text[i + 1] ELSE ""

\* The entities serialized in a returned text.
EntityCount(text) == Occurrences(text, "{id: ")

\* A list tool has returned the text of a successful call.
ListSucceeded ==
    /\ cur.pc = "done"
    /\ cur.tool \in ListTools
    /\ cur.exc = ""
    /\ cur.text # << >>
    /\ Head(cur.text) = "["

\* The arguments of a tool invocation are outside the declared bounds.
OutOfBounds(tool, a) ==
    IF tool \in ListTools
    THEN \/ a.limit < 1 \/ a.limit > 100
         \/ a.offset < 0
         \/ (~IsNone(a.page) /\ Val(a.page) < 1)
         \/ (tool = "list_tasks" /\ ~IsNone(a.project_id) /\ Val(a.project_id) < 1)
         \/ (tool = "list_tasks" /\ ~IsNone(a.assignee_id) /\ Val(a.assignee_id) < 1)
         \/ (tool = "list_tasks" /\ a.status \notin {"active", "completed", "all"})
         \/ (tool \in {"list_files", "list_comments"}
             /\ ~IsNone(a.task_id) /\ Val(a.task_id) < 1)
         \/ (tool \in {"list_files", "list_comments"}
             /\ ~IsNone(a.project_id) /\ Val(a.project_id) < 1)
    ELSE a.id < 1

\* ----------------------------------------------------------------- claims

\* C1: the exception kind that leaves _request is determined by the HTTP
\* status: 401 and 403 raise PlanfixAuthError, 404 raises
\* PlanfixNotFoundError, any other status >= 400 raises a plain PlanfixError.
C1_ErrorKindByStatus ==
    (RequestEnded /\ cur.out.type = "response" /\ cur.out.status >= 400) =>
        /\ cur.req.raised
        /\ cur.req.cls = (CASE cur.out.status \in {401, 403} -> "PlanfixAuthError"
                            [] cur.out.status = 404 -> "PlanfixNotFoundError"
                            [] OTHER -> "PlanfixError")

\* C2: a timeout of the transport leaves _request as a PlanfixError with the
\* fixed timeout message, a connection failure as a PlanfixError with the
\* fixed connection message; the catch-all branch neither replaces nor
\* prefixes the message.
C2_FixedTransportMessages ==
    /\ (RequestEnded /\ cur.out.type = "timeout") =>
            cur.req = Raise("PlanfixError", <<"Prevysheno vremya ozhidaniya zaprosa">>)
    /\ (RequestEnded /\ cur.out.type = "connect") =>
            cur.req = Raise("PlanfixError", <<"Ne udalos podklyuchitsya k Planfix API">>)

C2_Witness ==
    /\ cur.pc = "done"
    /\ cur.out.type \in {"timeout", "connect"}
    /\ cur.req.raised

\* C3: every _request call either returns the decoded JSON body of a
\* response with status < 400 or raises one of the declared error kinds; no
\* other exception type leaves it, also for a body that is not JSON and for
\* an unexpected exception of the transport.
C3_RequestIsTotal ==
    RequestEnded =>
        \/ /\ ~cur.req.raised
           /\ cur.out.type = "response"
           /\ cur.out.status < 400
           /\ cur.out.body.json
           /\ cur.req.value = cur.out.body
        \/ /\ cur.req.raised
           /\ cur.req.cls \in {"PlanfixError", "PlanfixAuthError",
                               "PlanfixNotFoundError", "PlanfixValidationError"}

C3_Witness ==
    /\ cur.pc = "done"
    /\ cur.out.type = "response"
    /\ cur.out.status = 200
    /\ ~cur.out.body.json
    /\ cur.req.raised

\* C4: every tool and resource handler returns a text for every outcome of
\* the call under it (success, invalid input, a PlanfixError of any kind, any
\* other exception); no exception leaves the handler.
C4_HandlersReturnText ==
    cur.pc = "done" => (cur.exc = "" /\ cur.text # << >>)

\* A resource has turned the KeyError of get_task, and a resource read
\* without a client handle its AttributeError, into a text.
C4_Witness ==
    /\ cur.pc = "done"
    /\ cur.tool = "task"
    /\ cur.sent = 1
    /\ ~cur.req.raised
    /\ cur.text # << >>
    /\ Head(cur.text) = "Oshibka polucheniya zadachi: "

\* C5: a tool given an argument outside the declared bounds returns a
\* formatted validation message and issues no upstream request.
C5_InvalidInputIsRejected ==
    (cur.pc # "idle" /\ cur.tool \in Tools /\ OutOfBounds(cur.tool, cur.args)) =>
        /\ cur.pc = "done"
        /\ cur.sent = 0
        /\ Has(cur.text, ValidationToken)

C5_Witness ==
    /\ cur.pc = "done"
    /\ api = "PlanfixAPI"
    /\ cur.tool = "list_tasks"
    /\ cur.args.limit > 100
    /\ cur.sent = 0

\* One call is page based, with page p and limit l, the other offset based
\* with offset (p - 1) * l and limit l.
PagePair(x, y) ==
    /\ x.passed.set /\ y.passed.set
    /\ x.tool = y.tool
    /\ ~IsNone(x.args.page)
    /\ IsNone(y.args.page)
    /\ y.args.limit = x.args.limit
    /\ y.args.offset = (Val(x.args.page) - 1) * x.args.limit

\* C6: a paginated list tool invoked with page p and limit l passes the same
\* offset and the same limit to the operation layer as when it is invoked
\* with offset (p - 1) * l, limit l and no page.
C6_PageEqualsOffset ==
    (PagePair(prev, cur) \/ PagePair(cur, prev)) => prev.passed = cur.passed

C6_Witness ==
    /\ PagePair(prev, cur)
    /\ Val(prev.args.page) > 1
    /\ cur.passed.offset > 0

\* C7: with a page, get_offset ignores the supplied offset and returns
\* (page - 1) * limit; without one it returns the supplied offset unchanged;
\* for validated input the offset is never negative.
C7_GetOffset ==
    (cur.tool \in ListTools /\ cur.passed.set) =>
        /\ ~IsNone(cur.args.page) =>
                cur.passed.offset = (Val(cur.args.page) - 1) * cur.args.limit
        /\ IsNone(cur.args.page) => cur.passed.offset = cur.args.offset
        /\ cur.passed.offset >= 0

\* The supplied offset differs from the one the page gives, and is ignored.
C7_Witness ==
    /\ cur.tool \in ListTools
    /\ cur.passed.set
    /\ ~IsNone(cur.args.page)
    /\ cur.args.offset > 0
    /\ cur.passed.offset # cur.args.offset

\* C8: the number of entities in the text of a successful list tool call
\* never exceeds the limit of the call, whatever the upstream array holds.
C8_CountWithinLimit ==
    ListSucceeded => EntityCount(cur.text) <= cur.args.limit

\* C9: a successful result of a paginated list tool ends with exactly one
\* pagination note: the hint when the count >= the limit, the "total found"
\* footer, with the count, when the count < the limit.
C9_ExactlyOneNote ==
    ListSucceeded =>
        LET n == EntityCount(cur.text)
            hints == Occurrences(cur.text, HintToken)
            footers == Occurrences(cur.text, FooterToken)
        IN  /\ hints + footers = 1
            /\ n >= cur.args.limit =>
                    (hints = 1 /\ cur.text[Len(cur.text)] = UseParamsToken)
            /\ n < cur.args.limit =>
                    (footers = 1 /\ After(cur.text, FooterToken) = ToString(n))

\* The count equals the limit: the hint is given.
C9_Witness ==
    /\ ListSucceeded
    /\ EntityCount(cur.text) = cur.args.limit
    /\ Has(cur.text, HintToken)

\* The hint is present in the text of a successful list tool call.
HintGiven == ListSucceeded /\ Has(cur.text, HintToken)

\* C10 as stated: the hint names the next position to request, the next
\* offset (offset + limit) or the next page (page + 1).
C10_HintNamesNext ==
    HintGiven =>
        IF ~IsNone(cur.args.page)
        THEN After(cur.text, ", stranitsa ") = ToString(Val(cur.args.page) + 1)
        ELSE After(cur.text, ", smeshchenie ") = ToString(cur.args.offset + cur.args.limit)

\* C10 amended: the hint names the position of the results shown, the page
\* of the call when it was page based and its offset when it was offset
\* based.
C10_HintNamesCurrent ==
    HintGiven =>
        IF ~IsNone(cur.args.page)
        THEN /\ After(cur.text, ", stranitsa ") = ToString(Val(cur.args.page))
             /\ ~Has(cur.text, ", smeshchenie ")
        ELSE /\ After(cur.text, ", smeshchenie ") = ToString(cur.args.offset)
             /\ ~Has(cur.text, ", stranitsa ")

C10_Witness ==
    /\ HintGiven
    /\ ~IsNone(cur.args.page)
    /\ Val(cur.args.page) > 1

\* C11: get_task_details with a task_id that is not the text of an integer
\* >= 1 returns the invalid-ID message for that id, sends no upstream
\* request, and does so whether or not the client handle is set.
ValidTaskId(t) == IsIntText(t) /\ IntOf(t) >= IdMin

ListOperationEnded ==
    cur.pc = "done" /\ cur.tool \in ListOperations /\ ~cur.req.raised

C12_MissingKeyIsValidationError ==
    (ListOperationEnded /\ cur.req.value.payload # "list")
        => /\ cur.op.raised
           /\ cur.op.cls = "PlanfixValidationError"

\* C13: a single-entity read (get_task, get_contact) whose response lacks
\* the nesting key, or holds a payload of the wrong shape under it, raises
\* a validation error; no exception outside the PlanfixError family
\* (KeyError, AttributeError, TypeError) leaves the operation.
C13_EntityReadValidates ==
    (cur.pc = "done" /\ cur.tool \in GetOperations)
        => /\ cur.op.raised => IsInstance(cur.op.cls, "PlanfixError")
           /\ (~cur.req.raised /\ cur.req.value.payload # "entity")
                  => (cur.op.raised /\ cur.op.cls = "PlanfixValidationError")

\* C14: no tool or resource issues an upstream request before the startup
\* probe (test_connection in server_lifespan) has returned success; when
\* the probe returns False, server_lifespan raises and the server is never
\* in the serving state.
C14_ProbeBeforeRequests ==
    /\ cur.sent > 0 => (probe = "True" /\ phase \in {"serving", "stopped"})
    /\ probe = "False" => phase = "failed"
    /\ phase \in {"serving", "stopped"} => probe = "True"

C14_Witness ==
    /\ cur.pc = "awaiting" /\ cur.sent = 1
    /\ probe = "True" /\ phase = "serving"

\* C15: the client handle `api` is assigned exactly once, from None to a
\* PlanfixAPI instance, by server_lifespan at startup; no later step (tool,
\* resource, probe result, shutdown) reassigns it or resets it to None.
C15_HandleAssignedOnce ==
    [][/\ api' # api => (api = "None" /\ api' = "PlanfixAPI"
                          /\ phase = "init" /\ phase' = "probing")
       /\ api = "PlanfixAPI" => api' = "PlanfixAPI"]_vars

C15_Witness ==
    /\ phase = "stopped"
    /\ api = "PlanfixAPI"
    /\ cur.pc = "done" /\ cur.sent > 0

\* C16: whatever the interleaving of two tool invocations in flight, the
\* text each one returns is the text it returns when it runs alone with the
\* same arguments and the same upstream responses.
RunAlone(tool, a, out1, out2) ==
    LET s == HandlerStart(tool, a, "PlanfixAPI")
        op1 == OpResult(tool, 1, Request(out1))
        op2 == OpResult(tool, 2, Request(out2))
    IN  IF s.done THEN s.result
        ELSE IF op1.raised THEN HandlerExcept(tool, op1)
        ELSE IF tool # "dashboard" THEN Text(SuccessText(tool, a, op1.value, 0))
        ELSE IF op2.raised THEN HandlerExcept(tool, op2)
        ELSE Text(SuccessText(tool, a, op2.value, Len(op1.value.items)))

ReturnedAsAlone(c) ==
    c.pc = "done" => [exc |-> c.exc, text |-> c.text] = RunAlone(c.tool, c.args, c.out1, c.out)

SingleRequestCallers == Tools \cup ListOperations \cup GetOperations

C17_OneRequestNoRetry ==
    /\ cur.tool \in SingleRequestCallers => cur.sent <= 1
    /\ (RequestEnded /\ cur.req.raised)
          => /\ cur.pc = "done"
             /\ cur.op = cur.req
             /\ cur.sent = cur.step

C17_Witness ==
    /\ cur.pc = "done" /\ cur.tool = "get_project"
    /\ cur.req.raised /\ cur.op = cur.req
    /\ cur.sent = 1

\* C18: an invocation whose HTTP call eventually ends eventually returns a
\* text, also while another invocation never gets its response; a call that
\* ran into the timeout ends as the timeout error of _request.
C18_InvocationReturns ==
    /\ (cur.pc = "awaiting") ~> (cur.pc = "done" /\ cur.exc = "" /\ cur.text # << >>)
    /\ []((cur.pc = "done" /\ cur.out.type = "timeout")
             => cur.req = Raise("PlanfixError", <<"Prevysheno vremya ozhidaniya zaprosa">>))

C18_Witness ==
    /\ cur.pc = "done" /\ cur.out.type = "timeout" /\ cur.text # << >>
    /\ other.pc = "awaiting"

\* C19: when the upstream call behind a tool fails with 401, 403, 404, a
\* timeout or a connection failure, the text the tool returns is the
\* authorization, access-denied, not-found, timeout or connection message
\* of format_error.
FailureMessage(out) ==
    CASE out.type = "timeout" -> <<"X Prevysheno vremya ozhidaniya. Poprobuite pozzhe.">>
      [] out.type = "connect" ->
            <<"X Oshibka soedineniya s Planfix. Proverte internet-podklyuchenie.">>
      [] out.type = "response" /\ out.status = 401 ->
            <<"X Oshibka avtorizatsii. Proverte API klyuchi Planfix.">>
      [] out.type = "response" /\ out.status = 403 ->
            <<"X Dostup zapreshchyon. Nedostatochno prav dlya vypolneniya operatsii.">>
      [] out.type = "response" /\ out.status = 404 ->
            <<"X Obekt ne naiden. Proverte ID i poprobuite snova.">>
      [] OTHER -> << >>

C19_FailureKindSelectsMessage ==
    (cur.pc = "done" /\ cur.tool \in Tools /\ RequestEnded
        /\ FailureMessage(cur.out) # << >>)
        => cur.text = FailureMessage(cur.out)

EntityPath(name, a) ==
    IF name = "get_task" THEN <<"task/", ToString(a.id)>>
    ELSE <<"contact/", ToString(a.id)>>

C21_GetForReadsPostForRest ==
    (cur.pc \in {"calling", "done"} /\ cur.tool \in Operations)
        => IF cur.tool \in GetOperations
           THEN cur.http.method = "GET" /\ cur.http.path = EntityPath(cur.tool, cur.args)
           ELSE cur.http.method = "POST"

\* C22: test_connection issues exactly one probe request, returns True when
\* that request succeeds and False when it raises, and never raises itself.
C22_ProbeReturnsBoolean ==
    (cur.pc = "done" /\ cur.tool = "test_connection")
        => /\ cur.sent = 1
           /\ ~cur.op.raised
           /\ cur.op.value.payload = (IF cur.req.raised THEN "False" ELSE "True")

C22_Witness ==
    /\ cur.pc = "done" /\ cur.tool = "test_connection"
    /\ cur.req.raised
    /\ cur.op = Return(ShapeBody("False"))

\* C23 (as claimed): the body of create_task and search_tasks holds the
\* always-present keys plus exactly one key for each optional argument the
\* caller supplied, and no key and no null for an argument left unset
\* (unset: the default of the signature).
Keys(payload) == {f[1] : f \in payload}
PayloadCall == cur.pc = "calling" /\ cur.tool \in {"create_task", "search_tasks"}

AlwaysKeys(name) ==
    IF name = "create_task" THEN {"name", "description", "priority"} ELSE {"fields"}

SuppliedKeys(name, a) ==
    (IF ~IsNone(a.project_id) THEN {"project"} ELSE {})
    \cup (IF ~IsNone(a.assignee_id) THEN {"assignee"} ELSE {})
    \cup (IF name = "create_task" /\ ~IsNone(a.deadline) THEN {"endDatePlan"} ELSE {})
    \cup (IF name = "search_tasks" /\ a.query # "" THEN {"name"} ELSE {})
    \cup (IF name = "search_tasks" /\ a.status # "active" THEN {"status"} ELSE {})

NoNulls(payload) == \A f \in payload : f[2] # "null"

C23_OnlySuppliedKeys ==
    PayloadCall
        => /\ Keys(cur.http.payload) = AlwaysKeys(cur.tool) \cup SuppliedKeys(cur.tool, cur.args)
           /\ NoNulls(cur.http.payload)

\* C23 (amended): one key for each optional argument given with a truthy
\* value (a non-zero id, a non-empty text), none for an argument that is
\* None, zero or empty, never a null; the status key of search_tasks holds
\* the given or default status and is left out only when status is "all".
TruthyKeys(name, a) ==
    (IF Truthy(a.project_id) THEN {"project"} ELSE {})
    \cup (IF Truthy(a.assignee_id) THEN {"assignee"} ELSE {})
    \cup (IF name = "create_task" /\ TruthyText(a.deadline) THEN {"endDatePlan"} ELSE {})
    \cup (IF name = "search_tasks" /\ a.query # "" THEN {"name"} ELSE {})
    \cup (IF name = "search_tasks" /\ a.status # "all" THEN {"status"} ELSE {})

C23_TruthyKeysOnly ==
    PayloadCall
        => /\ Keys(cur.http.payload) = AlwaysKeys(cur.tool) \cup TruthyKeys(cur.tool, cur.args)
           /\ NoNulls(cur.http.payload)
           /\ Cardinality(cur.http.payload) = Cardinality(Keys(cur.http.payload))

C23_Witness ==
    /\ PayloadCall /\ cur.tool = "search_tasks"
    /\ IsNone(cur.args.project_id) /\ cur.args.assignee_id = Some(IdMin)
    /\ Keys(cur.http.payload) = {"fields", "assignee", "status"}

\* C24: format_error answers with the message of the first rule, in the
\* fixed order authorization, access denied, not found, timeout,
\* connection, whose pattern the error text contains (words in any case);
\* when no rule matches, the generic message ends with the error text and
\* contains the context when one is given.
Rules ==
    <<{"401", "unauthorized"}, {"403", "forbidden"}, {"404", "not found"},
      {"timeout"}, {"connection"}>>

RuleMessages ==
    <<"X Oshibka avtorizatsii. Proverte API klyuchi Planfix.",
      "X Dostup zapreshchyon. Nedostatochno prav dlya vypolneniya operatsii.",
      "X Obekt ne naiden. Proverte ID i poprobuite snova.",
      "X Prevysheno vremya ozhidaniya. Poprobuite pozzhe.",
      "X Oshibka soedineniya s Planfix. Proverte internet-podklyuchenie.">>

RuleMatches(msg, i) == \E pat \in Rules[i] : \E k \in 1..Len(msg) : pat \in Mentions(msg[k])

MatchingRules(msg) == {i \in 1..Len(Rules) : RuleMatches(msg, i)}

FirstRule(msg) ==
    CHOOSE i \in MatchingRules(msg) : \A j \in MatchingRules(msg) : i <= j

EndsWith(text, tail) ==
    /\ Len(text) >= Len(tail)
    /\ SubSeq(text, Len(text) - Len(tail) + 1, Len(text)) = tail

Formatted == cur.pc = "done" /\ cur.tool = "format_error"

C24_FirstMatchingRule ==
    Formatted
        => IF MatchingRules(cur.req.msg) # {}
           THEN cur.text = <<RuleMessages[FirstRule(cur.req.msg)]>>
           ELSE /\ EndsWith(cur.text, cur.req.msg)
                /\ cur.context # "" => Has(cur.text, cur.context)
                /\ \A i \in 1..Len(RuleMessages) : ~Has(cur.text, RuleMessages[i])

C24_Witness ==
    /\ Formatted
    /\ cur.req.msg = <<"Connection timeout">>
    /\ cur.text = <<RuleMessages[4]>>

\* C25: for a response with status >= 400 other than 401, 403 and 404 whose
\* JSON body carries a failure envelope, the message of the raised error
\* contains the error text of the envelope; without an envelope it contains
\* the body's message field or the raw body text.
Contains(msg, t) == \E k \in 1..Len(msg) : msg[k] = t \/ t \in Spells(msg[k])

OtherErrorStatus ==
    /\ RequestEnded
    /\ cur.out.type = "response"
    /\ cur.out.status >= ErrorStatusMin
    /\ cur.out.status \notin {401, 403, 404}

C25_EnvelopeErrorInMessage ==
    OtherErrorStatus
        => /\ cur.req.raised
           /\ IsInstance(cur.req.cls, "PlanfixError")
           /\ IF ~IsNone(cur.out.body.error)
              THEN Contains(cur.req.msg, Val(cur.out.body.error))
              ELSE IF ~IsNone(cur.out.body.message)
              THEN Contains(cur.req.msg, Val(cur.out.body.message))
              ELSE Contains(cur.req.msg, cur.out.body.text)

\* C26: a list operation returns exactly one entity per element of the
\* upstream array, in the order of the array, and the listing a list tool
\* serializes keeps that order: nothing reordered, dropped or duplicated.
IdPositions(text) == {k \in 1..Len(text) : text[k] = "{id: "}

NthIdPosition(text, n) ==
    CHOOSE k \in IdPositions(text) : Cardinality({j \in IdPositions(text) : j <= k}) = n

ListedIds(text) ==
    [n \in 1..Cardinality(IdPositions(text)) |-> text[NthIdPosition(text, n) + 1]]

IdTexts(items) == [n \in 1..Len(items) |-> ToString(items[n])]

ListOperationReturned ==
    /\ cur.pc = "done" /\ cur.tool \in ListOperations /\ cur.http.method # ""
    /\ ~cur.op.raised
    /\ cur.out.body.payload = "list"

C26_OrderAndCountKept ==
    /\ ListOperationReturned => cur.op.value.items = cur.out.body.items
    /\ (ListSucceeded /\ cur.http.method = "")
          => ListedIds(cur.text) = IdTexts(cur.out.body.items)

C26_Witness ==
    /\ ListSucceeded /\ cur.http.method = ""
    /\ cur.out.body.items = Descending(MaxUpstream)
    /\ ListedIds(cur.text) = IdTexts(Descending(MaxUpstream))

\* C27: when main is started with a non-empty --account A, every upstream request
\* issued afterwards, the probe included, is sent to
\* https://A.planfix.ru/rest/...
AccountGiven == args.parsed /\ TruthyText(args.account)

RestOf(account) == <<"https://", account, ".planfix.ru", "/rest">>

C27_RequestsGoToAccount ==
    /\ (AccountGiven /\ phase = "probing")
          => self.base_url = RestOf(Val(args.account))
    /\ (AccountGiven /\ cur.pc = "awaiting")
          => cur.http.base_url = RestOf(Val(args.account))

\* C28 as stated: when main is started with --api-key K, every upstream
\* request, the probe included, carries Authorization: Bearer K.
KeyGiven == args.parsed /\ ~IsNone(args.api_key)

Bearer(key) == <<"Bearer ", key>>

C28_BearerOfAnyKey ==
    /\ (KeyGiven /\ phase = "probing")
          => self.headers.Authorization = Bearer(Val(args.api_key))
    /\ (KeyGiven /\ cur.pc = "awaiting")
          => cur.http.headers.Authorization = Bearer(Val(args.api_key))

\* C28: when main is started with a non-empty --api-key K, every upstream
\* request, the probe included, carries Authorization: Bearer K: the client
\* is constructed after the override and its headers stay as constructed.
\* An empty --api-key leaves the key of the environment in the header.
C28_BearerOfNonEmptyKey ==
    /\ (KeyGiven /\ phase = "probing")
          => self.headers.Authorization =
                Bearer(IF Val(args.api_key) # "" THEN Val(args.api_key)
                       ELSE Str(config.planfix_api_key))
    /\ (KeyGiven /\ cur.pc = "awaiting")
          => cur.http.headers.Authorization =
                Bearer(IF Val(args.api_key) # "" THEN Val(args.api_key)
                       ELSE Str(config.planfix_api_key))
    /\ (api = "PlanfixAPI" /\ args.parsed) => self = PlanfixAPI(config)

C28_Witness ==
    /\ KeyGiven /\ Val(args.api_key) = "clikey"
    /\ cur.pc = "awaiting"
    /\ cur.http.headers.Authorization = Bearer("clikey")

\* C29: a list or get tool invoked while the client handle is None issues
\* no upstream request; with valid inputs it returns the text
\* "API ne initsializirovan" (the Russian text, transliterated), with invalid
\* inputs the validation message, since validation runs first.
NotInitialized == <<"API ne initsializirovan">>

C29_NoHandleNoRequest ==
    (cur.pc # "idle" /\ cur.tool \in Tools /\ cur.http.method = "" /\ api = "None") =>
        /\ cur.pc = "done"
        /\ cur.sent = 0
        /\ IF OutOfBounds(cur.tool, cur.args)
           THEN Has(cur.text, ValidationToken) /\ cur.text # NotInitialized
           ELSE cur.text = NotInitialized

C29_Witness ==
    /\ cur.pc = "done" /\ api = "None"
    /\ cur.tool = "get_comment"
    /\ ~OutOfBounds(cur.tool, cur.args)
    /\ cur.sent = 0
    /\ cur.text = NotInitialized

\* C30: every HTTP client _request opens is closed when that call returns
\* or raises, on every path; each request has a client of its own, so the
\* open clients are never more than the calls in flight.
InFlight(c) == IF c.pc = "awaiting" THEN 1 ELSE 0

ClientsOf(c) ==
    /\ c.pc = "awaiting" => c.clients = {c.sent}
    /\ c.pc # "awaiting" => c.clients = {}

Paths == {"response", "timeout", "connect", "error"}

C30_ClientsClosed ==
    /\ ClientsOf(cur) /\ ClientsOf(other)
    /\ cur.pc = "done" /\ cur.out.type \in Paths => cur.clients = {}
    /\ Cardinality(cur.clients) + Cardinality(other.clients)
          <= InFlight(cur) + InFlight(other)

C30_Witness ==
    /\ cur.pc = "done" /\ cur.req.raised /\ cur.out.type = "timeout"
    /\ cur.clients = {}
    /\ other.pc = "awaiting" /\ other.tool = "dashboard" /\ other.clients = {2}

====
